---- MODULE Spec2Model ----
(***************************************************************************)
(* CHIP-8 emulator (src/chip8.c): the machine object chip8_t, the          *)
(* instruction interpreter emulate_chip8, the input handler handle_input,  *)
(* the timer step update_timers and the host loop of main.                 *)
(***************************************************************************)
EXTENDS Integers, Sequences, FiniteSets, TLC

VARIABLES
    chip8,      \* the chip8_t machine object of main
    events,     \* the SDL event queue read by SDL_PollEvent
    pc,         \* the position of main
    i,          \* the uint8_t counter of main's per-frame instruction loop
    budget,     \* how many events the host may still deliver in this run
    rom         \* the bytes of the ROM file named on the command line

vars == <<chip8, events, pc, i, budget, rom>>

----------------------------------------------------------------------------
\* Sizes and configuration

RAM_SIZE == 4096
DISPLAY_SIZE == 2048
STACK_SIZE == 12
entry_point == 512
window_width == 64
window_height == 32
clock_speed == 500

\* Bounds of the model
MaxEvents == 3      \* events the host delivers in one run
MaxQueue == 2       \* events pending at one poll
QuietEvents == 1    \* events the host of a register or sprite program delivers
MaxPCOverrun == 2   \* bytes past the end of ram the fetch may still be followed

Byte == 0..255
Word(n) == n % 65536
U8(n) == n % 256

Bit(b, j) == (b \div (2 ^ j)) % 2

\* The byte whose bit j is bits[j]
FromBits(bits) ==
    bits[0] + 2 * bits[1] + 4 * bits[2] + 8 * bits[3]
    + 16 * bits[4] + 32 * bits[5] + 64 * bits[6] + 128 * bits[7]

OrByte(a, b) ==
    FromBits([j \in 0..7 |-> IF Bit(a, j) + Bit(b, j) > 0 THEN 1 ELSE 0])
AndByte(a, b) == FromBits([j \in 0..7 |-> Bit(a, j) * Bit(b, j)])
XorByte(a, b) == FromBits([j \in 0..7 |-> (Bit(a, j) + Bit(b, j)) % 2])

Max(S) == CHOOSE x \in S : \A y \in S : x >= y

Min(S) == CHOOSE x \in S : \A y \in S : x <= y

\* A font table that was never filled in
font_blank == [k \in 1..80 |-> 0]

\* The font table of init_chip8, as a sequence (font[k+1] is byte k)
font ==
    << 240, 144, 144, 144, 240,    \* 0
        32,  96,  32,  32, 112,    \* 1
       240,  16, 240, 128, 240,    \* 2
       240,  16, 240,  16, 240,    \* 3
       144, 144, 240,  16,  16,    \* 4
       240, 128, 240,  16, 240,    \* 5
       240, 128, 240, 144, 240,    \* 6
       240,  16,  32,  64,  64,    \* 7
       240, 144, 240, 144, 240,    \* 8
       240, 144, 240,  16, 240,    \* 9
       240, 144, 240, 144, 144,    \* A
       224, 144, 224, 144, 224,    \* B
       240, 128, 128, 128, 240,    \* C
       224, 144, 144, 144, 224,    \* D
       240, 128, 240, 128, 240,    \* E
       240, 128, 240, 128, 128 >>  \* F

\* instruction_t: the fields emulate_chip8 cuts out of the opcode
Decode(op) ==
    [opcode |-> op,
     NNN |-> op % 4096,
     NN |-> op % 256,
     N |-> op % 16,
     X |-> (op \div 256) % 16,
     Y |-> (op \div 16) % 16]

\* chip8_t chip8 = {0} followed by a successful init_chip8 on the image
init_chip8(image) ==
    [state |-> "RUNNING",
     ram |-> [a \in 0..(RAM_SIZE - 1) |->
                IF a < Len(font) THEN font[a + 1]
                ELSE IF a >= entry_point /\ a < entry_point + Len(image)
                     THEN image[a - entry_point + 1]
                     ELSE 0],
     display |-> [p \in 0..(DISPLAY_SIZE - 1) |-> FALSE],
     stack |-> [s \in 0..(STACK_SIZE - 1) |-> 0],
     stack_ptr |-> 0,
     V |-> [r \in 0..15 |-> 0],
     PC |-> entry_point,
     I |-> 0,
     delay_timer |-> 0,
     sound_timer |-> 0,
     keypad |-> [k \in 0..15 |-> FALSE],
     inst |-> Decode(0),
     draw |-> FALSE]

\* init_chip8 returns false when the image does not fit behind the entry point
max_size == RAM_SIZE - entry_point
RomFits(image) == ~(Len(image) > max_size)

\* fread(&ram[entry_point], rom_size, 1, rom) != 1 is a failure as well:
\* fread yields the number of whole items read, which is 0 for an item of
\* rom_size 0 bytes
RomRead(image) == Len(image) > 0

\* The machine init_chip8 leaves behind when it returns false: chip8 = {0}
\* with the font loaded (state 0 is QUIT, the first enumerator)
init_failed ==
    [init_chip8(<< >>) EXCEPT !.state = "QUIT", !.PC = 0]

----------------------------------------------------------------------------
\* handle_input

\* The QWERTY key of each keypad line (the two switches of handle_input)
KeyMap ==
    [sym \in {"SDLK_1", "SDLK_2", "SDLK_3", "SDLK_4",
              "SDLK_q", "SDLK_w", "SDLK_e", "SDLK_r",
              "SDLK_a", "SDLK_s", "SDLK_d", "SDLK_f",
              "SDLK_z", "SDLK_x", "SDLK_c", "SDLK_v"} |->
        CASE sym = "SDLK_1" -> 1  [] sym = "SDLK_2" -> 2
          [] sym = "SDLK_3" -> 3  [] sym = "SDLK_4" -> 12
          [] sym = "SDLK_q" -> 4  [] sym = "SDLK_w" -> 5
          [] sym = "SDLK_e" -> 6  [] sym = "SDLK_r" -> 13
          [] sym = "SDLK_a" -> 7  [] sym = "SDLK_s" -> 8
          [] sym = "SDLK_d" -> 9  [] sym = "SDLK_f" -> 14
          [] sym = "SDLK_z" -> 10 [] sym = "SDLK_x" -> 0
          [] sym = "SDLK_c" -> 11 [] sym = "SDLK_v" -> 15]

\* keypad[...] = down for a mapped key; the default: arm for any other key
SetKey(m, sym, down) ==
    IF sym \in DOMAIN KeyMap
    THEN [m EXCEPT !.keypad[KeyMap[sym]] = down]
    ELSE m

\* An ESCAPE arm that only ever pauses
PauseOnly(m) == [m EXCEPT !.state = "PAUSED"]

\* The ESCAPE arm: RUNNING becomes PAUSED, anything else becomes RUNNING
TogglePause(m) ==
    IF m.state = "RUNNING"
    THEN [m EXCEPT !.state = "PAUSED"]
    ELSE [m EXCEPT !.state = "RUNNING"]

\* while(SDL_PollEvent(&event)): events are taken from the head of the queue
\* until it is empty or an arm returns; what is left stays in the queue.
RECURSIVE handle_input(_, _)
handle_input(m, q) ==
    IF q = << >>
    THEN [chip8 |-> m, events |-> q]
    ELSE LET e == Head(q)
             rest == Tail(q)
         IN CASE e.type = "SDL_QUIT" ->
                    [chip8 |-> [m EXCEPT !.state = "QUIT"], events |-> rest]
              [] e.type = "SDL_KEYDOWN" ->
                    IF e.sym = "SDLK_ESCAPE"
                    THEN [chip8 |-> TogglePause(m), events |-> rest]
                    ELSE handle_input(SetKey(m, e.sym, TRUE), rest)
              [] e.type = "SDL_KEYUP" ->
                    handle_input(SetKey(m, e.sym, FALSE), rest)
              [] OTHER -> handle_input(m, rest)

\* Timers decremented without the test for zero
update_timers_wrap(m) ==
    [m EXCEPT !.delay_timer = U8(m.delay_timer - 1),
              !.sound_timer = U8(m.sound_timer - 1)]

\* update_timers
update_timers(m) ==
    LET m1 == IF m.delay_timer > 0
              THEN [m EXCEPT !.delay_timer = m.delay_timer - 1] ELSE m
    IN IF m1.sound_timer > 0
       THEN [m1 EXCEPT !.sound_timer = m1.sound_timer - 1] ELSE m1

----------------------------------------------------------------------------
\* emulate_chip8
\*
\* An instruction takes the machine m as it is after the fetch (m.inst is the
\* decoded opcode, m.PC already points behind it) and yields the machine after
\* it. u holds what the run leaves open: the value of rand() and the outcome
\* of an access that leaves its array, which C leaves undefined:
\*   u.oob_hi, u.oob_lo  the bytes a read outside its array yields
\*   u.clobber           whether a write outside its array lands on the field
\*                       the struct lays out behind the array (TRUE) or on
\*                       bytes nothing reads (FALSE)

OOBBytes == {0, 1, 255}
RandBytes == {0, 165, 255}

\* ram[a] as an rvalue
RamRead(m, a, oob) == IF a \in 0..(RAM_SIZE - 1) THEN m.ram[a] ELSE oob

\* ram[base + k] = bytes[k + 1] for every k; display[] is the field behind ram[]
StoreBytes(m, base, bytes, u) ==
    LET hit(a) == a >= base /\ a < base + Len(bytes)
    IN [m EXCEPT
          !.ram = [a \in 0..(RAM_SIZE - 1) |->
                     IF hit(a) THEN bytes[a - base + 1] ELSE m.ram[a]],
          !.display = [p \in 0..(DISPLAY_SIZE - 1) |->
                     IF u.clobber /\ hit(RAM_SIZE + p)
                     THEN bytes[RAM_SIZE + p - base + 1] # 0
                     ELSE m.display[p]]]

\* opcode = ram[PC] << 8 | ram[PC+1]; PC += 2; then the constants
Fetch(m, u) ==
    LET hi == RamRead(m, m.PC, u.oob_hi)
        lo == RamRead(m, m.PC + 1, u.oob_lo)
    IN [m EXCEPT !.inst = Decode(hi * 256 + lo), !.PC = Word(m.PC + 2)]

\* 00E0
op_00E0(m) ==
    [m EXCEPT !.display = [p \in 0..(DISPLAY_SIZE - 1) |-> FALSE],
              !.draw = TRUE]

\* A return that reads the oldest entry of the stack
op_00EE_bottom(m, u) ==
    [m EXCEPT !.stack_ptr = m.stack_ptr - 1, !.PC = m.stack[0]]

\* 00EE: PC = *--stack_ptr. Below stack[0] the word read is not a stack slot.
op_00EE(m, u) ==
    LET sp == m.stack_ptr - 1
    IN [m EXCEPT !.stack_ptr = sp,
                 !.PC = IF sp \in 0..(STACK_SIZE - 1)
                        THEN m.stack[sp]
                        ELSE u.oob_hi * 256 + u.oob_lo]

\* 1NNN
op_1NNN(m) == [m EXCEPT !.PC = m.inst.NNN]

\* 2NNN: *stack_ptr++ = PC; PC = NNN. At stack + 12 the store leaves the
\* array: it lands on padding (stack_ptr is then stack + 13) or on stack_ptr
\* itself, which then points nowhere in the array.
op_2NNN(m, u) ==
    LET sp == m.stack_ptr
    IN IF sp \in 0..(STACK_SIZE - 1)
       THEN [m EXCEPT !.stack[sp] = m.PC,
                      !.stack_ptr = sp + 1,
                      !.PC = m.inst.NNN]
       ELSE [m EXCEPT !.stack_ptr = IF u.clobber
                                    THEN STACK_SIZE + 2 + u.oob_lo
                                    ELSE sp + 1,
                      !.PC = m.inst.NNN]

\* A skip taken exactly when its condition fails
SkipInverted(m, cond) == IF cond THEN m ELSE [m EXCEPT !.PC = Word(m.PC + 2)]

\* PC += 2 of the skip instructions
Skip(m, cond) == IF cond THEN [m EXCEPT !.PC = Word(m.PC + 2)] ELSE m

op_3XNN(m) == Skip(m, m.V[m.inst.X] = m.inst.NN)
op_4XNN(m) == Skip(m, m.V[m.inst.X] # m.inst.NN)
op_5XY0(m) == Skip(m, m.V[m.inst.X] = m.V[m.inst.Y])
op_9XY0(m) == Skip(m, m.V[m.inst.X] # m.V[m.inst.Y])

op_6XNN(m) == [m EXCEPT !.V[m.inst.X] = m.inst.NN]
op_7XNN(m) == [m EXCEPT !.V[m.inst.X] = U8(m.V[m.inst.X] + m.inst.NN)]

\* The 8XYN group. Where the code has two statements, the second one reads
\* the registers the first one has written.
op_8XY0(m) == [m EXCEPT !.V[m.inst.X] = m.V[m.inst.Y]]
op_8XY1(m) == [m EXCEPT !.V[m.inst.X] = OrByte(m.V[m.inst.X], m.V[m.inst.Y])]
op_8XY2(m) == [m EXCEPT !.V[m.inst.X] = AndByte(m.V[m.inst.X], m.V[m.inst.Y])]
op_8XY3(m) == [m EXCEPT !.V[m.inst.X] = XorByte(m.V[m.inst.X], m.V[m.inst.Y])]

op_8XY4(m) ==
    LET m1 == [m EXCEPT !.V[15] =
                 IF m.V[m.inst.Y] > 255 - m.V[m.inst.X] THEN 1 ELSE 0]
    IN [m1 EXCEPT !.V[m.inst.X] = U8(m1.V[m.inst.X] + m1.V[m.inst.Y])]

op_8XY5(m) ==
    LET m1 == [m EXCEPT !.V[15] =
                 IF m.V[m.inst.Y] <= m.V[m.inst.X] THEN 1 ELSE 0]
    IN [m1 EXCEPT !.V[m.inst.X] = U8(m1.V[m.inst.X] - m1.V[m.inst.Y])]

\* A right shift that takes its operand from V[Y]
op_8XY6_fromY(m) ==
    LET m1 == [m EXCEPT !.V[15] = m.V[m.inst.Y] % 2]
    IN [m1 EXCEPT !.V[m.inst.X] = m1.V[m.inst.Y] \div 2]

op_8XY6(m) ==
    LET m1 == [m EXCEPT !.V[15] = m.V[m.inst.X] % 2]
    IN [m1 EXCEPT !.V[m.inst.X] = m1.V[m.inst.X] \div 2]

op_8XY7(m) ==
    LET m1 == [m EXCEPT !.V[15] =
                 IF m.V[m.inst.X] <= m.V[m.inst.Y] THEN 1 ELSE 0]
    IN [m1 EXCEPT !.V[m.inst.X] = U8(m1.V[m.inst.Y] - m1.V[m.inst.X])]

op_8XYE(m) ==
    LET m1 == [m EXCEPT !.V[15] = Bit(m.V[m.inst.X], 7)]
    IN [m1 EXCEPT !.V[m.inst.X] = U8(m1.V[m.inst.X] * 2)]

op_8XYN(m) ==
    CASE m.inst.N = 0 -> op_8XY0(m)
      [] m.inst.N = 1 -> op_8XY1(m)
      [] m.inst.N = 2 -> op_8XY2(m)
      [] m.inst.N = 3 -> op_8XY3(m)
      [] m.inst.N = 4 -> op_8XY4(m)
      [] m.inst.N = 5 -> op_8XY5(m)
      [] m.inst.N = 6 -> op_8XY6(m)
      [] m.inst.N = 7 -> op_8XY7(m)
      [] m.inst.N = 14 -> op_8XYE(m)
      [] OTHER -> m

op_ANNN(m) == [m EXCEPT !.I = m.inst.NNN]
op_BNNN(m) == [m EXCEPT !.PC = Word(m.V[0] + m.inst.NNN)]
op_CXNN(m, u) == [m EXCEPT !.V[m.inst.X] = AndByte(u.rand % 256, m.inst.NN)]

\* DXYN. The row loop runs i = 0..N-1 and leaves after the row that makes
\* ++Y_coord reach window_height; the column loop runs j = 7..0 and leaves
\* after the column that makes ++X_coord reach window_width.
X_coord(m) == m.V[m.inst.X] % window_width
Y_coord(m) == m.V[m.inst.Y] % window_height

\* The column loop leaving one column early
VisitedShort(x0, y0, N, x, y) ==
    /\ x >= x0 /\ x < x0 + 8 /\ x < window_width - 1
    /\ y >= y0 /\ y < y0 + N /\ y < window_height

\* Is the cell (x, y) visited by the two loops of an N-row draw at (x0, y0)?
Visited(x0, y0, N, x, y) ==
    /\ x >= x0 /\ x < x0 + 8 /\ x < window_width
    /\ y >= y0 /\ y < y0 + N /\ y < window_height

\* The bits of a sprite row taken from the low end
sprite_bit_lsb(m, r, c, u) == Bit(RamRead(m, m.I + r, u.oob_lo), c) = 1

\* sprite_data & (1 << j) for row r (ram[I + r]) and column c (j = 7 - c)
sprite_bit(m, r, c, u) == Bit(RamRead(m, m.I + r, u.oob_lo), 7 - c) = 1

PixelOr(pixel, bit) == pixel \/ bit

\* *pixel ^= sprite_bit
PixelXor(pixel, bit) == pixel # bit

\* if(sprite_bit && *pixel) V[0xF] = 1
Collides(pixel, bit) == bit /\ pixel

op_DXYN(m, u) ==
    LET x0 == X_coord(m)
        y0 == Y_coord(m)
        N == m.inst.N
        hit == \E r \in 0..(N - 1), c \in 0..7 :
                  /\ Visited(x0, y0, N, x0 + c, y0 + r)
                  /\ Collides(m.display[(y0 + r) * window_width + x0 + c],
                              sprite_bit(m, r, c, u))
        pixel(p) ==
            LET x == p % window_width
                y == p \div window_width
            IN IF Visited(x0, y0, N, x, y)
               THEN PixelXor(m.display[p], sprite_bit(m, y - y0, x - x0, u))
               ELSE m.display[p]
    IN [m EXCEPT
          !.V[15] = IF hit THEN 1 ELSE 0,
          !.display = [p \in 0..(DISPLAY_SIZE - 1) |-> pixel(p)],
          !.draw = TRUE]

\* EX9E / EXA1; any other NN does nothing
op_EXNN(m) ==
    LET key == m.keypad[m.V[m.inst.X] % 16]
    IN IF m.inst.NN = 158 THEN Skip(m, key)
       ELSE IF m.inst.NN = 161 THEN Skip(m, ~key)
       ELSE m

op_FX07(m) == [m EXCEPT !.V[m.inst.X] = m.delay_timer]

\* FX0A: key_pressed starts out true, the loop stores the first key that is
\* down, and PC is taken back only if key_pressed is false.
op_FX0A(m) ==
    LET down == {k \in 0..15 : m.keypad[k]}
        key_pressed == TRUE
        m1 == IF down # {} THEN [m EXCEPT !.V[m.inst.X] = Min(down)] ELSE m
    IN IF ~key_pressed THEN [m1 EXCEPT !.PC = Word(m.PC - 2)] ELSE m1

op_FX15(m) == [m EXCEPT !.delay_timer = m.V[m.inst.X]]
op_FX18(m) == [m EXCEPT !.sound_timer = m.V[m.inst.X]]
\* An index add that reports a sum above 0xFFF in V[F]
op_FX1E_flag(m) ==
    [m EXCEPT !.I = Word(m.I + m.V[m.inst.X]),
              !.V[15] = IF m.I + m.V[m.inst.X] > 4095 THEN 1 ELSE 0]

op_FX1E(m) == [m EXCEPT !.I = Word(m.I + m.V[m.inst.X])]
op_FX29(m) == [m EXCEPT !.I = (m.V[m.inst.X] % 16) * 5]

\* The three digits stored units first
op_FX33_reversed(m, u) ==
    LET value == m.V[m.inst.X]
    IN StoreBytes(m, m.I,
                  << value % 10, (value \div 10) % 10, (value \div 10) \div 10 >>,
                  u)

op_FX33(m, u) ==
    LET value == m.V[m.inst.X]
    IN StoreBytes(m, m.I,
                  << (value \div 10) \div 10, (value \div 10) % 10, value % 10 >>,
                  u)

op_FX55(m, u) ==
    StoreBytes(m, m.I, [k \in 1..(m.inst.X + 1) |-> m.V[k - 1]], u)

\* A load loop that stops before V[X]
op_FX65_short(m, u) ==
    [m EXCEPT !.V = [r \in 0..15 |->
                       IF r < m.inst.X
                       THEN RamRead(m, m.I + r, u.oob_lo)
                       ELSE m.V[r]]]

op_FX65(m, u) ==
    [m EXCEPT !.V = [r \in 0..15 |->
                       IF r <= m.inst.X
                       THEN RamRead(m, m.I + r, u.oob_lo)
                       ELSE m.V[r]]]

op_FXNN(m, u) ==
    CASE m.inst.NN = 7 -> op_FX07(m)
      [] m.inst.NN = 10 -> op_FX0A(m)
      [] m.inst.NN = 21 -> op_FX15(m)
      [] m.inst.NN = 24 -> op_FX18(m)
      [] m.inst.NN = 30 -> op_FX1E(m)
      [] m.inst.NN = 41 -> op_FX29(m)
      [] m.inst.NN = 51 -> op_FX33(m, u)
      [] m.inst.NN = 85 -> op_FX55(m, u)
      [] m.inst.NN = 101 -> op_FX65(m, u)
      [] OTHER -> m

\* case 0x0: only NN is looked at
op_0NNN(m, u) ==
    IF m.inst.NN = 224 THEN op_00E0(m)
    ELSE IF m.inst.NN = 238 THEN op_00EE(m, u)
    ELSE m

\* switch ((opcode >> 12) & 0x0F)
Execute(m, u) ==
    LET top == (m.inst.opcode \div 4096) % 16
    IN CASE top = 0 -> op_0NNN(m, u)
         [] top = 1 -> op_1NNN(m)
         [] top = 2 -> op_2NNN(m, u)
         [] top = 3 -> op_3XNN(m)
         [] top = 4 -> op_4XNN(m)
         [] top = 5 -> op_5XY0(m)
         [] top = 6 -> op_6XNN(m)
         [] top = 7 -> op_7XNN(m)
         [] top = 8 -> op_8XYN(m)
         [] top = 9 -> op_9XY0(m)
         [] top = 10 -> op_ANNN(m)
         [] top = 11 -> op_BNNN(m)
         [] top = 12 -> op_CXNN(m, u)
         [] top = 13 -> op_DXYN(m, u)
         [] top = 14 -> op_EXNN(m)
         [] top = 15 -> op_FXNN(m, u)

emulate_chip8(m, u) == Execute(Fetch(m, u), u)

\* The opcode the next emulate_chip8 will fetch, when both bytes are in ram
NextOpcode(m) == m.ram[m.PC] * 256 + m.ram[m.PC + 1]
FetchInRam(m) == m.PC + 1 < RAM_SIZE

\* What the next instruction leaves open
Choices(m) ==
    LET inram == FetchInRam(m)
        inst == IF inram THEN Decode(NextOpcode(m)) ELSE Decode(0)
        top == inst.opcode \div 4096
        sp == m.stack_ptr
        reads == \/ ~inram
                 \/ top = 0 /\ inst.NN = 238 /\ sp - 1 \notin 0..(STACK_SIZE - 1)
                 \/ top = 2 /\ sp \notin 0..(STACK_SIZE - 1)
                 \/ top = 13 /\ m.I + inst.N > RAM_SIZE
                 \/ top = 15 /\ inst.NN = 101 /\ m.I + inst.X >= RAM_SIZE
        writes == \/ ~inram
                  \/ top = 2 /\ sp \notin 0..(STACK_SIZE - 1)
                  \/ top = 15 /\ inst.NN = 51 /\ m.I + 2 >= RAM_SIZE
                  \/ top = 15 /\ inst.NN = 85 /\ m.I + inst.X >= RAM_SIZE
    IN [rand : IF ~inram \/ top = 12 THEN RandBytes ELSE {0},
        oob_hi : IF reads THEN OOBBytes ELSE {0},
        oob_lo : IF reads THEN OOBBytes ELSE {0},
        clobber : IF writes THEN BOOLEAN ELSE {FALSE}]

----------------------------------------------------------------------------
\* main: the emulator loop

\* The events the host delivers
HostEvents ==
    { [type |-> "SDL_QUIT", sym |-> "none"],
      [type |-> "SDL_KEYDOWN", sym |-> "SDLK_ESCAPE"],
      [type |-> "SDL_KEYDOWN", sym |-> "SDLK_x"],
      [type |-> "SDL_KEYUP", sym |-> "SDLK_x"],
      [type |-> "SDL_KEYDOWN", sym |-> "SDLK_4"] }

IsKeyEvent(e) == e.type \in {"SDL_KEYDOWN", "SDL_KEYUP"} /\ e.sym \in DOMAIN KeyMap

\* clear_screen(config, sdl); srand(time(NULL)): no field of chip8 is written
ClearScreen ==
    /\ pc = "clear_screen"
    /\ pc' = "while"
    /\ UNCHANGED <<chip8, events, i, budget, rom>>

\* while (chip8.state != QUIT)
LoopTest ==
    /\ pc = "while"
    /\ pc' = IF chip8.state # "QUIT" THEN "handle_input" ELSE "final_cleanup"
    /\ UNCHANGED <<chip8, events, i, budget, rom>>

\* The host queues an event; SDL_PollEvent collects what has arrived when
\* handle_input starts polling.
PostEvent ==
    /\ pc = "handle_input"
    /\ budget > 0
    /\ Len(events) < MaxQueue
    /\ \E e \in HostEvents : events' = Append(events, e)
    /\ budget' = budget - 1
    /\ UNCHANGED <<chip8, pc, i, rom>>

\* handle_input(&chip8)
HandleInput ==
    /\ pc = "handle_input"
    /\ LET r == handle_input(chip8, events)
       IN /\ chip8' = r.chip8
          /\ events' = r.events
    /\ pc' = "if_paused"
    /\ UNCHANGED <<i, budget, rom>>

\* A loop without the test for PAUSED
IfPausedIgnored ==
    /\ pc = "if_paused"
    /\ pc' = "for" /\ i' = 0
    /\ UNCHANGED <<chip8, events, budget, rom>>

\* if(chip8.state == PAUSED) continue; otherwise the for loop starts at i = 0
IfPaused ==
    /\ pc = "if_paused"
    /\ IF chip8.state = "PAUSED"
       THEN pc' = "while" /\ i' = i
       ELSE pc' = "for" /\ i' = 0
    /\ UNCHANGED <<chip8, events, budget, rom>>

\* One pass of for (uint8_t i = 0; i < config.clock_speed/60; i++)
\* emulate_chip8(&chip8, config). The run is followed while stack_ptr points
\* into stack[] or just behind it and the fetch stays within MaxPCOverrun
\* bytes of ram[].
EmulateStep ==
    /\ pc = "for"
    /\ i < clock_speed \div 60
    /\ chip8.stack_ptr \in 0..STACK_SIZE
    /\ chip8.PC < RAM_SIZE + MaxPCOverrun
    /\ \E u \in Choices(chip8) : chip8' = emulate_chip8(chip8, u)
    /\ i' = U8(i + 1)
    /\ UNCHANGED <<events, pc, budget, rom>>

\* The for loop ending one pass early
ForExitEarly ==
    /\ pc = "for"
    /\ ~(i + 1 < clock_speed \div 60)
    /\ pc' = "redraw_screen"
    /\ UNCHANGED <<chip8, events, i, budget, rom>>

\* The for loop ends
ForExit ==
    /\ pc = "for"
    /\ ~(i < clock_speed \div 60)
    /\ pc' = "redraw_screen"
    /\ UNCHANGED <<chip8, events, i, budget, rom>>

\* redraw_screen(sdl, config, &chip8) reads display[] and writes no field
RedrawScreen ==
    /\ pc = "redraw_screen"
    /\ pc' = "update_timers"
    /\ UNCHANGED <<chip8, events, i, budget, rom>>

\* update_timers(&chip8), then back to the loop test
UpdateTimers ==
    /\ pc = "update_timers"
    /\ chip8' = update_timers(chip8)
    /\ pc' = "while"
    /\ UNCHANGED <<events, i, budget, rom>>

\* final_cleanup(sdl); exit(EXIT_SUCCESS)
FinalCleanup ==
    /\ pc = "final_cleanup"
    /\ pc' = "exit"
    /\ UNCHANGED <<chip8, events, i, budget, rom>>

Next ==
    \/ ClearScreen
    \/ LoopTest
    \/ PostEvent
    \/ HandleInput
    \/ IfPaused
    \/ EmulateStep
    \/ ForExit
    \/ RedrawScreen
    \/ UpdateTimers
    \/ FinalCleanup

----------------------------------------------------------------------------
\* Program images

\* The image of a sequence of opcodes: big-endian, two bytes each
Image(ops) ==
    [k \in 1..(2 * Len(ops)) |->
        IF k % 2 = 1 THEN ops[(k + 1) \div 2] \div 256 ELSE ops[k \div 2] % 256]

\* Programs that exercise control flow, the stack, the key wait, the timers
\* and the screen flag
ControlRoms ==
    { Image(<<61706, 4608>>),               \* F10A ; 1200
      Image(<<8704>>),                      \* 2200: calls itself for ever
      Image(<<238>>),                       \* 00EE on the empty stack
      Image(<<8708, 4610, 238>>),           \* 2204 ; 1202 ; 00EE
      Image(<<224, 4610>>),                 \* 00E0 ; 1202
      Image(<<24831, 49151>>),              \* 60FF ; BFFF
      Image(<<8190>>),                      \* 1FFE: runs off the end of ram
      Image(<<8191>>),                      \* 1FFF: an odd target
      Image(<<24579, 61461, 61464, 4614>>)  \* 6003 ; F015 ; F018 ; 1206
    }

\* The machine after main's initialisation with an image of roms and a host
\* that delivers at most n events: init_chip8 has succeeded and main is about
\* to call clear_screen, or it has failed and main has left with EXIT_FAILURE
InitWith(roms, n) ==
    /\ rom \in roms
    /\ IF RomFits(rom) /\ RomRead(rom)
       THEN chip8 = init_chip8(rom) /\ pc = "clear_screen"
       ELSE chip8 = init_failed /\ pc = "exit_failure"
    /\ events = << >>
    /\ i = 0
    /\ budget = n

\* The same with a host that delivers no event at all, for programs that
\* run for hundreds of ticks
InitQuiet(roms) == InitWith(roms, 0)

Init == InitWith(ControlRoms, MaxEvents)

Spec == Init /\ [][Next]_vars

\* Programs that stay inside ram and the stack: the key wait, the screen
\* flag, the timers
HostRoms ==
    { Image(<<61706, 4608>>),               \* F10A ; 1200
      Image(<<224, 4610>>),                 \* 00E0 ; 1202
      Image(<<24579, 61461, 61464, 4614>>)  \* 6003 ; F015 ; F018 ; 1206
    }

SpecHost == InitWith(HostRoms, MaxEvents) /\ [][Next]_vars

\* The same with a process that keeps running: main's loop has no wait that
\* could last for ever (SDL_PollEvent does not block, SDL_Delay returns)
SpecHostFair == SpecHost /\ WF_vars(Next)

\* Programs that only jump
JumpRoms ==
    { Image(<<24831, 49151>>),              \* 60FF ; BFFF
      Image(<<8190>>),                      \* 1FFE
      Image(<<8191>>),                      \* 1FFF
      Image(<<4608>>)                       \* 1200
    }

SpecJump == InitWith(JumpRoms, MaxEvents) /\ [][Next]_vars

\* 6Xaa ; 6Ybb ; 8XYn ; 1206 for register pairs with and without VF
AluPairs == { <<0, 1>>, <<1, 15>>, <<15, 1>> }
AluBytes == { 0, 1, 5, 200, 255 }
AluOps == { 4, 5, 7 }
AluProgram(X, Y, a, b, n) ==
    << 6 * 4096 + X * 256 + a,
       6 * 4096 + Y * 256 + b,
       8 * 4096 + X * 256 + Y * 16 + n,
       4614 >>
AluRoms ==
    { Image(AluProgram(p[1], p[2], a, b, n)) :
        p \in AluPairs, a \in AluBytes, b \in AluBytes, n \in AluOps }

SpecALU == InitWith(AluRoms, QuietEvents) /\ [][Next]_vars

\* 6Xxx ; 6Yyy ; Annn ; DXYN ; DXYN ; 120A ; two sprite rows.
\* The first draw is at entry_point + 6, the second at entry_point + 8, the
\* sprite rows at entry_point + 12.
DrawPairs == { <<0, 1>>, <<15, 1>>, <<0, 15>> }
DrawXs == { 5, 60, 127 }
DrawYs == { 31, 33 }
DrawRows == { 1, 2 }
DrawSprites == { 33023, 256, 255 }      \* 80 FF, 01 00, 00 FF
DrawProgram(X, Y, x, y, addr, N, sprite) ==
    << 6 * 4096 + X * 256 + x,
       6 * 4096 + Y * 256 + y,
       10 * 4096 + addr,
       13 * 4096 + X * 256 + Y * 16 + N,
       13 * 4096 + X * 256 + Y * 16 + N,
       4096 + entry_point + 10,
       sprite >>
DrawRoms ==
    { Image(DrawProgram(p[1], p[2], x, y, entry_point + 12, N, sprite)) :
        p \in DrawPairs, x \in DrawXs, y \in DrawYs,
        N \in DrawRows, sprite \in DrawSprites }
    \cup
    \* a sprite whose second row lies behind the end of ram
    { Image(DrawProgram(0, 1, x, 0, RAM_SIZE - 1, 2, 0)) : x \in DrawXs }
    \cup
    \* the same with a first row the program itself stores at the last byte
    \* of ram: 120E ; - ; - ; D012 ; D012 ; 120A ; - ;
    \*         6080 ; AFFF ; F055 ; 6005 ; 1206
    { Image(<< 4096 + entry_point + 14, 0, 0,
               13 * 4096 + 1 * 16 + 2, 13 * 4096 + 1 * 16 + 2,
               4096 + entry_point + 10, 0,
               6 * 4096 + 128, 10 * 4096 + RAM_SIZE - 1, 15 * 4096 + 85,
               6 * 4096 + 5, 4096 + entry_point + 6 >>) }
    \cup
    \* a sprite of zero rows only, and an origin at the top left
    { Image(DrawProgram(0, 1, 0, 0, entry_point + 12, N, 0)) : N \in DrawRows }

SpecDraw == InitWith(DrawRoms, QuietEvents) /\ [][Next]_vars

\* Programs around the decoder: opcodes of the 0NNN family next to 00E0 and
\* 00EE, and opcodes that no case of the switch names
DecodeRoms ==
    { Image(<<40960, 53253, 480, 4614>>),    \* A000 ; D005 ; 01E0 ; 1206
      Image(<<40960, 53253, 224, 4614>>),    \* A000 ; D005 ; 00E0 ; 1206
      Image(<<8708, 4610, 494>>),            \* 2204 ; 1202 ; 01EE
      Image(<<8708, 4610, 238>>),            \* 2204 ; 1202 ; 00EE
      Image(<<291, 4095, 4610>>),            \* 0123 ; 0FFF ; 1202
      Image(<<20497, 4610, 4612>>),          \* 5011 ; 1202 ; 1204
      Image(<<24577, 20497, 4612>>),         \* 6001 ; 5011 ; 1204
      Image(<<24577, 36881, 4612, 4614>>),   \* 6001 ; 9011 ; 1204 ; 1206
      Image(<<36881, 4610>>),                \* 9011 ; 1202
      Image(<<24583, 32792, 32793, 32794, 32795, 32796, 32797, 32799, 4624>>),
                  \* 6007 ; 8018 ; 8019 ; 801A ; 801B ; 801C ; 801D ; 801F ; 1210
      Image(<<57344, 57759, 57760, 4614>>),  \* E000 ; E19F ; E1A0 ; 1206
      Image(<<61440, 61707, 61695, 61542, 4616>>)
                                      \* F000 ; F10B ; F0FF ; F066 ; 1208
    }

SpecDecode == InitWith(DecodeRoms, QuietEvents) /\ [][Next]_vars

\* ROM files of the lengths around the limits of init_chip8: no byte, one
\* byte, two bytes, max_size bytes and max_size + 1 bytes. The long ones
\* start with 1200 and go on with bytes that differ from their neighbours.
LongRom(len) ==
    [k \in 1..len |-> IF k = 1 THEN 18 ELSE IF k = 2 THEN 0 ELSE k % 256]
LoadRoms ==
    { << >>, <<18>>, Image(<<4608>>), LongRom(max_size), LongRom(max_size + 1) }

SpecLoad == InitWith(LoadRoms, MaxEvents) /\ [][Next]_vars

\* 6Xvv ; Annn ; FX33 ; 1206
BcdRegs == { 0, 15 }
BcdBytes == { 0, 7, 10, 99, 100, 128, 255 }
BcdProgram(X, v, addr) ==
    << 6 * 4096 + X * 256 + v,
       10 * 4096 + addr,
       15 * 4096 + X * 256 + 51,
       4096 + entry_point + 6 >>
BcdRoms ==
    { Image(BcdProgram(X, v, addr)) :
        X \in BcdRegs, v \in BcdBytes, addr \in {entry_point + 256, RAM_SIZE - 3} }

\* 60v0 ; .. ; 6XvX ; Annn ; FX55 ; 6077 ; .. ; 6X77 ; FX65 ; jump to itself.
\* Register r is loaded with (base + 17 r) mod 256, saved, overwritten with
\* 0x77 and loaded back; the FX55 is the opcode number X + 3, the FX65 the
\* opcode number 2X + 5.
SaveRegs == { 0, 3, 15 }
SaveBases == { 1, 250 }
SaveProgram(X, base, addr) ==
    [k \in 1..(2 * X + 6) |->
        IF k <= X + 1 THEN 6 * 4096 + (k - 1) * 256 + ((base + 17 * (k - 1)) % 256)
        ELSE IF k = X + 2 THEN 10 * 4096 + addr
        ELSE IF k = X + 3 THEN 15 * 4096 + X * 256 + 85
        ELSE IF k <= 2 * X + 4 THEN 6 * 4096 + (k - X - 4) * 256 + 119
        ELSE IF k = 2 * X + 5 THEN 15 * 4096 + X * 256 + 101
        ELSE 4096 + entry_point + 2 * (2 * X + 5)]
SaveRoms ==
    { Image(SaveProgram(X, base, addr)) :
        X \in SaveRegs, base \in SaveBases, addr \in {entry_point + 256} }
    \cup
    { Image(SaveProgram(X, 1, RAM_SIZE - 1 - X)) : X \in SaveRegs }

SpecMem == InitWith(BcdRoms \cup SaveRoms, QuietEvents) /\ [][Next]_vars

\* The program 00E0 ; A22A ; 6005 ; D005 and the same with I set to 5, the
\* address of the glyph of digit 1. Nothing follows the four opcodes, so the
\* machine goes on through the zero bytes behind them (0000 has no effect)
\* up to the end of ram.
ScenarioRoms ==
    { Image(<<224, 10 * 4096 + 554, 24581, 53253>>),
      Image(<<224, 10 * 4096 + 5, 24581, 53253>>) }

SpecScenario ==
    (InitQuiet(ScenarioRoms) \/ InitWith(HostRoms, QuietEvents)) /\ [][Next]_vars

\* 6Xaa ; 6Ybb ; a skip instruction ; 1206 ; 1208, for the skip
\* instructions 3X0C, 3X00, 4X0C, 5XY0, 9XY0, EX9E and EXA1, register pairs
\* with X = Y and with VF, and values that name the keys 0 and C with and
\* without high bits (0x1C)
SkipPairs == { <<0, 1>>, <<1, 15>>, <<2, 2>> }
SkipAs == { 0, 12, 28 }
SkipBs == { 0, 12 }
SkipOps(X, Y) ==
    { 3 * 4096 + X * 256 + 12, 3 * 4096 + X * 256,
      4 * 4096 + X * 256 + 12,
      5 * 4096 + X * 256 + Y * 16,
      9 * 4096 + X * 256 + Y * 16,
      14 * 4096 + X * 256 + 158,
      14 * 4096 + X * 256 + 161 }
SkipProgram(X, Y, a, b, op) ==
    << 6 * 4096 + X * 256 + a,
       6 * 4096 + Y * 256 + b,
       op,
       4096 + entry_point + 6,
       4096 + entry_point + 8 >>
SkipRoms ==
    UNION { { Image(SkipProgram(p[1], p[2], a, b, op)) : op \in SkipOps(p[1], p[2]) } :
              p \in SkipPairs, a \in SkipAs, b \in SkipBs }

SpecSkip == InitWith(SkipRoms, QuietEvents) /\ [][Next]_vars

\* 6Xaa ; 6Ybb ; 8XY6 or 8XYE ; 1206, for register pairs with X = Y, with
\* X = F and with Y = F
ShiftPairs == { <<0, 1>>, <<1, 15>>, <<15, 1>>, <<2, 2>>, <<15, 15>> }
ShiftAs == { 0, 1, 128, 129, 255 }
ShiftBs == { 0, 255 }
ShiftOps == { 6, 14 }
ShiftRoms ==
    { Image(AluProgram(p[1], p[2], a, b, n)) :
        p \in ShiftPairs, a \in ShiftAs, b \in ShiftBs, n \in ShiftOps }

SpecShift == InitWith(ShiftRoms, QuietEvents) /\ [][Next]_vars

\* 6Xvv ; Annn ; FX1E ; 1206
IndexRegs == { 0, 15 }
IndexBytes == { 0, 1, 255 }
IndexRoms ==
    { Image(<< 6 * 4096 + X * 256 + v, 10 * 4096 + nnn,
               15 * 4096 + X * 256 + 30, 4096 + entry_point + 6 >>) :
        X \in IndexRegs, v \in IndexBytes, nnn \in {0, RAM_SIZE - 1} }

\* 60FF ; AFFF ; F01E IndexAdds times ; jump to itself. I passes 0xFFFF
\* with the 241st add.
IndexAdds == 245
WrapRoms ==
    { Image([k \in 1..(IndexAdds + 3) |->
               IF k = 1 THEN 6 * 4096 + 255
               ELSE IF k = 2 THEN 10 * 4096 + RAM_SIZE - 1
               ELSE IF k <= IndexAdds + 2 THEN 15 * 4096 + 30
               ELSE 4096 + entry_point + 2 * (IndexAdds + 2)]) }

SpecIndex ==
    (InitQuiet(WrapRoms) \/ InitWith(IndexRoms, QuietEvents)) /\ [][Next]_vars

\* 2204 ; 1202 ; then STACK_SIZE subroutines of which each calls the next
\* and returns (2NNN ; 00EE), the last one only returns: subroutine j is at
\* entry_point + 4 j. And two calls in a row to one subroutine: 2206 ; 2206 ;
\* 1204 ; 00EE.
NestProgram ==
    [k \in 1..(2 * STACK_SIZE + 1) |->
        IF k = 1 THEN 2 * 4096 + entry_point + 4
        ELSE IF k = 2 THEN 4096 + entry_point + 2
        ELSE IF k % 2 = 0 THEN 238
        ELSE IF k = 2 * STACK_SIZE + 1 THEN 238
        ELSE 2 * 4096 + entry_point + 2 * (k - 1) + 4]
CallRoms ==
    { Image(NestProgram),
      Image(<< 2 * 4096 + entry_point + 6, 2 * 4096 + entry_point + 6,
               4096 + entry_point + 4, 238 >>) }

SpecCall == InitWith(CallRoms, QuietEvents) /\ [][Next]_vars

\* Programs that take I to the edges of ram and of the font table:
\*   AFFF ; F033 ; 1204          AFFF ; F155 ; 1204       AFFF ; F165 ; 1204
\*   AFFF ; D012 ; 1204          AFFE ; F133 ; 1204 (the last byte is in ram)
\*   60FF ; AFFF ; F01E ; D001 ; 1208
\*   60FF ; A000 ; F055 ; 6000 ; F029 ; 120A
\*   6007 ; F029 ; F033 ; 1206   6003 ; F029 ; D005 ; 1206
EdgeRoms ==
    { Image(<<10 * 4096 + RAM_SIZE - 1, 15 * 4096 + 51, 4096 + entry_point + 4>>),
      Image(<<10 * 4096 + RAM_SIZE - 1, 15 * 4096 + 256 + 85, 4096 + entry_point + 4>>),
      Image(<<10 * 4096 + RAM_SIZE - 1, 15 * 4096 + 256 + 101, 4096 + entry_point + 4>>),
      Image(<<10 * 4096 + RAM_SIZE - 1, 13 * 4096 + 16 + 2, 4096 + entry_point + 4>>),
      Image(<<10 * 4096 + RAM_SIZE - 2, 15 * 4096 + 256 + 51, 4096 + entry_point + 4>>),
      Image(<<6 * 4096 + 255, 10 * 4096 + RAM_SIZE - 1, 15 * 4096 + 30,
              13 * 4096 + 1, 4096 + entry_point + 8>>),
      Image(<<6 * 4096 + 255, 10 * 4096, 15 * 4096 + 85, 6 * 4096,
              15 * 4096 + 41, 4096 + entry_point + 10>>),
      Image(<<6 * 4096 + 7, 15 * 4096 + 41, 15 * 4096 + 51, 4096 + entry_point + 6>>),
      Image(<<6 * 4096 + 3, 15 * 4096 + 41, 13 * 4096 + 5, 4096 + entry_point + 6>>) }

SpecEdge == InitWith(EdgeRoms, QuietEvents) /\ [][Next]_vars

----------------------------------------------------------------------------
\* Steps of the host loop, as seen from outside

\* One emulate_chip8 call of the for loop
ExecStep == pc = "for" /\ pc' = "for" /\ i' # i

\* The update_timers call
TimerStep == pc = "update_timers" /\ pc' = "while"

\* The instruction an ExecStep is about to run
Fetched == Decode(NextOpcode(chip8))
Top(inst) == inst.opcode \div 4096

NoKeyDown(m) == \A k \in 0..15 : ~m.keypad[k]

\* Every field but PC, stack, stack_ptr and inst is the same in m and n
SameData(m, n) ==
    /\ m.ram = n.ram /\ m.display = n.display /\ m.V = n.V /\ m.I = n.I
    /\ m.delay_timer = n.delay_timer /\ m.sound_timer = n.sound_timer
    /\ m.keypad = n.keypad /\ m.draw = n.draw /\ m.state = n.state

----------------------------------------------------------------------------
\* C1: FX0A executed at address a while all 16 keys are up leaves PC at a
\* (not a + 2) and V[X] unchanged, so the same FX0A is dispatched again.
C1_KeyWaitBlocks ==
    [][ (/\ ExecStep
         /\ FetchInRam(chip8)
         /\ Top(Fetched) = 15 /\ Fetched.NN = 10
         /\ NoKeyDown(chip8))
        => (chip8'.PC = chip8.PC /\ chip8'.V = chip8.V) ]_vars

\* C2: 2NNN executed when the stack holds 12 return addresses fails: the
\* depth stays within 0..12, no stack slot and no other field is written.
C2_StackOverflowContained ==
    [][ (/\ ExecStep
         /\ FetchInRam(chip8)
         /\ Top(Fetched) = 2
         /\ chip8.stack_ptr = STACK_SIZE)
        => (/\ chip8'.stack_ptr \in 0..STACK_SIZE
            /\ chip8'.stack = chip8.stack
            /\ SameData(chip8, chip8')) ]_vars

\* C3: 00EE executed on the empty stack fails: the stack pointer does not
\* move below the stack base and PC is not loaded from outside the stack.
C3_StackUnderflowContained ==
    [][ (/\ ExecStep
         /\ FetchInRam(chip8)
         /\ Fetched.opcode = 238
         /\ chip8.stack_ptr = 0)
        => (/\ chip8'.stack_ptr \in 0..STACK_SIZE
            /\ chip8'.PC \in {chip8.PC, Word(chip8.PC + 2)}) ]_vars

\* C4: an instruction is executed and the timers are decremented only if the
\* run state is RUNNING after input handling; never once a quit event has
\* set it to QUIT.
C4_GatedOnRunning ==
    [][ (ExecStep \/ TimerStep) => chip8.state = "RUNNING" ]_vars

\* C5: when the batch of a tick starts (here: of a tick whose run state is
\* RUNNING), no key-down or key-up event that was pending at the start of the
\* tick is still waiting in the queue; all of them have been applied.
C5_InputBeforeBatch ==
    (pc = "for" /\ i = 0 /\ chip8.state = "RUNNING")
        => \A k \in 1..Len(events) : ~IsKeyEvent(events[k])

\* C6: the redraw flag is cleared at the end of every tick, so it is false
\* whenever a tick starts.
C6_FlagClearAtTickStart ==
    pc = "while" => ~chip8.draw

\* C7: in every reachable state PC is even and 0 <= PC < 4096.
C7_PCInvariant ==
    chip8.PC % 2 = 0 /\ chip8.PC >= 0 /\ chip8.PC < RAM_SIZE

\* C8: 8XY4 with X # Y (X = F and Y = F included), from V[X] = a and
\* V[Y] = b: afterwards V[F] = 1 iff a + b > 255 (else 0) and
\* V[X] = (a + b) mod 256.
C8_CarryLaw ==
    [][ (/\ ExecStep
         /\ FetchInRam(chip8)
         /\ Top(Fetched) = 8 /\ Fetched.N = 4
         /\ Fetched.X # Fetched.Y)
        => LET a == chip8.V[Fetched.X]
               b == chip8.V[Fetched.Y]
           IN /\ chip8'.V[15] = (IF a + b > 255 THEN 1 ELSE 0)
              /\ chip8'.V[Fetched.X] = (a + b) % 256 ]_vars

\* C9: 8XY5 and 8XY7 with X # Y (X = F and Y = F included), from V[X] = a
\* and V[Y] = b: after 8XY5, V[F] = 1 iff b <= a and V[X] = (a - b) mod 256;
\* after 8XY7, V[F] = 1 iff a <= b and V[X] = (b - a) mod 256.
C9_BorrowLaw ==
    [][ (/\ ExecStep
         /\ FetchInRam(chip8)
         /\ Top(Fetched) = 8 /\ Fetched.N \in {5, 7}
         /\ Fetched.X # Fetched.Y)
        => LET a == chip8.V[Fetched.X]
               b == chip8.V[Fetched.Y]
           IN IF Fetched.N = 5
              THEN /\ chip8'.V[15] = (IF b <= a THEN 1 ELSE 0)
                   /\ chip8'.V[Fetched.X] = (a - b) % 256
              ELSE /\ chip8'.V[15] = (IF a <= b THEN 1 ELSE 0)
                   /\ chip8'.V[Fetched.X] = (b - a) % 256 ]_vars

\* The sprite programs: the machine right after the first and right after
\* the second of the two draws (chip8.inst is the instruction last executed)
AfterFirstDraw == chip8.PC = entry_point + 8 /\ Top(chip8.inst) = 13
AfterSecondDraw == chip8.PC = entry_point + 10 /\ Top(chip8.inst) = 13

AllOff(m) == \A p \in 0..(DISPLAY_SIZE - 1) : ~m.display[p]

\* The N rows of the sprite at I lie in ram and one of them is not zero
SpriteInRam(m) == m.I + m.inst.N <= RAM_SIZE
NonZeroSprite(m) ==
    /\ m.inst.N >= 1
    /\ \E r \in 0..(m.inst.N - 1) : m.I + r < RAM_SIZE /\ m.ram[m.I + r] # 0

\* Some set bit of the sprite falls on the screen: bit 7 - c of row r with
\* (V[X] mod 64) + c < 64 and (V[Y] mod 32) + r < 32
SetBitOnScreen(m) ==
    \E r \in 0..(m.inst.N - 1), c \in 0..7 :
        /\ m.I + r < RAM_SIZE
        /\ Bit(m.ram[m.I + r], 7 - c) = 1
        /\ (m.V[m.inst.X] % window_width) + c < window_width
        /\ (m.V[m.inst.Y] % window_height) + r < window_height

\* C10 as stated: the same DXYN (N >= 1, a non-zero sprite byte, any origin)
\* twice in a row on an all-off framebuffer: V[F] = 0 after the first draw;
\* after the second the framebuffer is all-off again and V[F] = 1.
C10_DrawTwice ==
    /\ (AfterFirstDraw /\ NonZeroSprite(chip8)) => chip8.V[15] = 0
    /\ (AfterSecondDraw /\ NonZeroSprite(chip8))
          => (AllOff(chip8) /\ chip8.V[15] = 1)

\* C10 amended: for X and Y other than F and a sprite whose rows lie in ram,
\* V[F] = 0 after the first draw; after the second the framebuffer is all-off
\* again and V[F] = 1 exactly if a set bit of the sprite falls on the screen
\* (is not clipped at the right or bottom edge), else V[F] = 0.
C10_DrawTwiceClipped ==
    LET scope == /\ NonZeroSprite(chip8) /\ SpriteInRam(chip8)
                 /\ chip8.inst.X # 15 /\ chip8.inst.Y # 15
    IN /\ (AfterFirstDraw /\ scope) => chip8.V[15] = 0
       /\ (AfterSecondDraw /\ scope)
             => /\ AllOff(chip8)
                /\ chip8.V[15] = (IF SetBitOnScreen(chip8) THEN 1 ELSE 0)

\* Witness: a partly clipped sprite has been drawn twice and the second draw
\* has reported the collision
C10_Witness ==
    /\ AfterSecondDraw
    /\ NonZeroSprite(chip8) /\ SpriteInRam(chip8)
    /\ chip8.inst.X # 15 /\ chip8.inst.Y # 15
    /\ (chip8.V[chip8.inst.X] % window_width) + 8 > window_width
    /\ SetBitOnScreen(chip8)
    /\ chip8.V[15] = 1
    /\ AllOff(chip8)

Least(a, b) == IF a < b THEN a ELSE b

\* C11: DXYN clips and never wraps. With x0 = V[X] mod 64 and y0 = V[Y] mod 32
\* taken before the instruction, the only cells it changes are those with
\* x0 <= x < min(x0 + 8, 64) and y0 <= y < min(y0 + N, 32); each of these is
\* XORed with bit 7 - (x - x0) of ram[I + (y - y0)] (for the rows that ram
\* holds); the framebuffer keeps its 2048 cells 0..2047.
C11_DrawClips ==
    [][ (/\ ExecStep
         /\ FetchInRam(chip8)
         /\ Top(Fetched) = 13)
        => LET x0 == chip8.V[Fetched.X] % 64
               y0 == chip8.V[Fetched.Y] % 32
               N == Fetched.N
           IN /\ DOMAIN chip8'.display = 0..2047
              /\ \A p \in 0..2047 :
                    LET x == p % 64
                        y == p \div 64
                    IN IF /\ x0 <= x /\ x < Least(x0 + 8, 64)
                          /\ y0 <= y /\ y < Least(y0 + N, 32)
                       THEN chip8.I + (y - y0) < RAM_SIZE
                            => chip8'.display[p] =
                                 (chip8.display[p] #
                                    (Bit(chip8.ram[chip8.I + (y - y0)],
                                         7 - (x - x0)) = 1))
                       ELSE chip8'.display[p] = chip8.display[p] ]_vars

\* Witness: the first draw of a sprite that reaches over the right edge has
\* set the cell of column 63 in some row and has left column 0 of that row
\* and of the next row alone
C11_Witness ==
    /\ AfterFirstDraw
    /\ chip8.inst.X # 15 /\ chip8.inst.Y # 15
    /\ (chip8.V[chip8.inst.X] % window_width) + 8 > window_width
    /\ \E y \in 0..(window_height - 2) :
          /\ chip8.display[y * window_width + window_width - 1]
          /\ ~chip8.display[y * window_width]
          /\ ~chip8.display[(y + 1) * window_width]

\* An instruction that only steps over itself: PC is the address of the next
\* instruction and nothing else has changed
OnlyPCAdvances(m, n) ==
    /\ n.PC = Word(m.PC + 2)
    /\ SameData(m, n)
    /\ n.stack = m.stack /\ n.stack_ptr = m.stack_ptr

\* C12: only the exact opcodes 00E0 and 00EE act in the 0NNN family; every
\* other 0NNN (01E0 and 01EE among them) changes nothing but PC, which moves
\* to the next instruction.
C12_OnlyExact0NNN ==
    [][ (/\ ExecStep
         /\ FetchInRam(chip8)
         /\ Top(Fetched) = 0
         /\ Fetched.opcode \notin {224, 238})
        => OnlyPCAdvances(chip8, chip8') ]_vars

\* The opcodes without a meaning: 5XYN and 9XYN with N # 0, 8XYN with N in
\* {8, 9, A, B, C, D, F}, EXNN with NN outside {9E, A1}, FXNN with NN outside
\* {07, 0A, 15, 18, 1E, 29, 33, 55, 65}
Undefined(inst) ==
    \/ Top(inst) \in {5, 9} /\ inst.N # 0
    \/ Top(inst) = 8 /\ inst.N \in {8, 9, 10, 11, 12, 13, 15}
    \/ Top(inst) = 14 /\ inst.NN \notin {158, 161}
    \/ Top(inst) = 15 /\ inst.NN \notin {7, 10, 21, 24, 30, 41, 51, 85, 101}

\* C13: an undefined opcode is a silent no-op: it changes nothing but PC,
\* which moves to the next instruction.
C13_UndefinedNoOp ==
    [][ (/\ ExecStep
         /\ FetchInRam(chip8)
         /\ Undefined(Fetched))
        => OnlyPCAdvances(chip8, chip8') ]_vars

\* C14: a Running tick executes exactly floor(clock_speed / 60) = 8
\* instructions and then returns to the host loop: the batch starts counting
\* at 0, every pass executes one instruction and counts it, no pass begins
\* after the 8th, and the batch is left only after the 8th.
C14_BatchSize ==
    [][ /\ (pc = "if_paused" /\ pc' = "for") => i' = 0
        /\ ExecStep => (i' = i + 1 /\ i' <= 8)
        /\ (pc = "for" /\ pc' # "for")
              => (/\ i = 8
                  /\ i = clock_speed \div 60
                  /\ pc' = "redraw_screen") ]_vars

\* Witness: a Running tick has finished its batch of 8 instructions
C14_Witness ==
    /\ pc = "redraw_screen"
    /\ chip8.state = "RUNNING"
    /\ i = 8

\* C15: loading a ROM of L bytes fails, and no instruction is ever executed,
\* if L > 3584; for every L in 0..3584 it succeeds, and the machine main goes
\* on with has ram[512 + k] = byte k of the ROM for all k < L.
C15_LoadContract ==
    /\ Len(rom) > 3584 => pc = "exit_failure"
    /\ Len(rom) <= 3584
          => /\ pc # "exit_failure"
             /\ pc = "clear_screen"
                   => \A k \in 0..(Len(rom) - 1) : chip8.ram[512 + k] = rom[k + 1]

\* The glyphs of the hex digits 0..F, each row as the value of its four
\* pixels (the high nibble of the sprite byte)
GlyphRows ==
    << <<15, 9, 9, 9, 15>>,  <<2, 6, 2, 2, 7>>,    <<15, 1, 15, 8, 15>>,
       <<15, 1, 15, 1, 15>>, <<9, 9, 15, 1, 1>>,   <<15, 8, 15, 1, 15>>,
       <<15, 8, 15, 9, 15>>, <<15, 1, 2, 4, 4>>,   <<15, 9, 15, 9, 15>>,
       <<15, 9, 15, 1, 15>>, <<15, 9, 15, 9, 9>>,  <<14, 9, 14, 9, 14>>,
       <<15, 8, 8, 8, 15>>,  <<14, 9, 9, 9, 14>>,  <<15, 8, 15, 8, 15>>,
       <<15, 8, 15, 8, 8>> >>

\* C16: after a successful load PC = 512, the run state is RUNNING, the
\* stack is empty, V, I, both timers, all keys and all framebuffer cells are
\* zero, ram[5g .. 5g+4] is the glyph of hex digit g for g in 0..15, and
\* every byte of ram outside the font table and the image is 0.
C16_InitialState ==
    pc = "clear_screen"
    => /\ chip8.PC = 512
       /\ chip8.state = "RUNNING"
       /\ chip8.stack_ptr = 0
       /\ \A r \in 0..15 : chip8.V[r] = 0 /\ ~chip8.keypad[r]
       /\ chip8.I = 0
       /\ chip8.delay_timer = 0 /\ chip8.sound_timer = 0
       /\ \A p \in 0..2047 : ~chip8.display[p]
       /\ \A g \in 0..15, r \in 0..4 :
             chip8.ram[5 * g + r] = 16 * GlyphRows[g + 1][r + 1]
       /\ \A a \in 80..4095 :
             ~(a >= 512 /\ a < 512 + Len(rom)) => chip8.ram[a] = 0

\* Witness: a ROM of the greatest length has been loaded and main is about
\* to enter its loop
C16_Witness ==
    /\ pc = "clear_screen"
    /\ Len(rom) = 3584
    /\ chip8.ram[512] = rom[1] /\ chip8.ram[4095] = rom[3584]
    /\ chip8.ram[0] = 240

\* C17: FX0A executed at address a while some key is down stores the lowest
\* index of a key that is down in V[X], leaves PC at a + 2 and changes
\* nothing else.
C17_KeyWaitStores ==
    [][ (/\ ExecStep
         /\ FetchInRam(chip8)
         /\ Top(Fetched) = 15 /\ Fetched.NN = 10
         /\ ~NoKeyDown(chip8))
        => (/\ chip8.keypad[chip8'.V[Fetched.X]]
            /\ \A k \in 0..15 : k < chip8'.V[Fetched.X] => ~chip8.keypad[k]
            /\ \A r \in 0..15 : r # Fetched.X => chip8'.V[r] = chip8.V[r]
            /\ chip8'.PC = chip8.PC + 2
            /\ chip8'.ram = chip8.ram /\ chip8'.display = chip8.display
            /\ chip8'.I = chip8.I
            /\ chip8'.delay_timer = chip8.delay_timer
            /\ chip8'.sound_timer = chip8.sound_timer
            /\ chip8'.keypad = chip8.keypad /\ chip8'.draw = chip8.draw
            /\ chip8'.state = chip8.state
            /\ chip8'.stack = chip8.stack
            /\ chip8'.stack_ptr = chip8.stack_ptr) ]_vars

\* Witness: F10A at 512 has stored key C, the only key that is down, in V[1]
\* and has gone on to 514
C17_Witness ==
    /\ chip8.inst.opcode = 61706
    /\ chip8.PC = entry_point + 2
    /\ chip8.keypad[12] /\ ~chip8.keypad[0]
    /\ chip8.V[1] = 12

\* The handle_input call
InputStep == pc = "handle_input" /\ pc' = "if_paused"

\* The run state after the first quit or pause-toggle event of the queue q
\* has acted on the run state st (key events before it do not count)
IsQuit(e) == e.type = "SDL_QUIT"
IsToggle(e) == e.type = "SDL_KEYDOWN" /\ e.sym = "SDLK_ESCAPE"
AfterControl(st, q) ==
    LET ctl == {k \in 1..Len(q) : IsQuit(q[k]) \/ IsToggle(q[k])}
    IN IF ctl = {} THEN st
       ELSE LET first == CHOOSE k \in ctl : \A j \in ctl : k <= j
            IN IF IsQuit(q[first]) THEN "QUIT"
               ELSE IF st = "RUNNING" THEN "PAUSED"
               ELSE IF st = "PAUSED" THEN "RUNNING"
               ELSE st

\* C18: the run state is always RUNNING, PAUSED or QUIT; a pause-toggle
\* event turns RUNNING into PAUSED and PAUSED into RUNNING, a quit event
\* turns any state into QUIT; QUIT is terminal: the state never changes
\* again and the host loop is left at its next test; no instruction, no
\* timer step and no other step than input handling changes the run state.
C18_RunControl ==
    [][ /\ chip8'.state \in {"RUNNING", "PAUSED", "QUIT"}
        /\ chip8.state = "QUIT" => chip8'.state = "QUIT"
        /\ (pc = "while" /\ chip8.state = "QUIT") => pc' = "final_cleanup"
        /\ InputStep => chip8'.state = AfterControl(chip8.state, events)
        /\ ~InputStep => chip8'.state = chip8.state ]_vars

\* Witness: every event the host had has been handled, the last of them a
\* quit event, and main has left its loop
C18_Witness ==
    /\ pc = "exit"
    /\ chip8.state = "QUIT"
    /\ budget = 0 /\ events = << >>

\* The fields a pause must not touch
Frozen(m, n) ==
    /\ n.PC = m.PC /\ n.V = m.V /\ n.I = m.I
    /\ n.stack = m.stack /\ n.stack_ptr = m.stack_ptr
    /\ n.ram = m.ram /\ n.display = m.display
    /\ n.delay_timer = m.delay_timer /\ n.sound_timer = m.sound_timer

\* C19: a host-loop iteration whose input handling ends in PAUSED leaves PC,
\* V, I, the stack, ram, the framebuffer and both timers unchanged: input
\* handling itself writes none of them (only keys and the run state), and
\* the iteration then goes straight back to the loop test, from where input
\* is polled again.
C19_PausedFreezes ==
    [][ /\ (InputStep /\ chip8'.state = "PAUSED") => Frozen(chip8, chip8')
        /\ (pc = "if_paused" /\ chip8.state = "PAUSED")
              => (pc' = "while" /\ chip8' = chip8)
        /\ (pc = "while" /\ chip8.state = "PAUSED")
              => (pc' = "handle_input" /\ chip8' = chip8) ]_vars

\* Witness: input handling has set key 0 and then paused the machine, whose
\* delay timer is still running
C19_Witness ==
    /\ pc = "if_paused"
    /\ chip8.state = "PAUSED"
    /\ chip8.keypad[0]
    /\ chip8.delay_timer > 0

TimerAfter(t) == IF t - 1 > 0 THEN t - 1 ELSE 0

\* The instruction about to run is FX15 (NN = 21) or FX18 (NN = 24)
SetsTimer(NN) ==
    ExecStep /\ FetchInRam(chip8) /\ Top(Fetched) = 15 /\ Fetched.NN = NN

\* The next step of the batch runs FX15 or FX18
AboutToSetTimer(NN) ==
    /\ pc = "for" /\ i < clock_speed \div 60
    /\ FetchInRam(chip8)
    /\ Top(Fetched) = 15 /\ Fetched.NN = NN

\* C20: the timer step at the end of a tick turns each of delay_timer and
\* sound_timer into max(t - 1, 0), each on its own, never wrapping to 255;
\* it runs once per tick (after the batch and the redraw, before the loop
\* test), and nothing but it and FX15 (resp. FX18) changes the delay (resp.
\* sound) timer. So when ticks keep coming and the program has stopped
\* executing FX15 and FX18, both timers reach 0 and stay 0.
C20_TimerStep ==
    /\ [][ /\ TimerStep
               => /\ chip8'.delay_timer = TimerAfter(chip8.delay_timer)
                  /\ chip8'.sound_timer = TimerAfter(chip8.sound_timer)
                  /\ Frozen(chip8, [chip8' EXCEPT
                                      !.delay_timer = chip8.delay_timer,
                                      !.sound_timer = chip8.sound_timer])
           /\ pc = "redraw_screen" => pc' = "update_timers"
           /\ pc = "update_timers" => TimerStep
           /\ pc' = "update_timers" => pc = "redraw_screen"
           /\ chip8'.delay_timer # chip8.delay_timer
                 => (TimerStep \/ SetsTimer(21))
           /\ chip8'.sound_timer # chip8.sound_timer
                 => (TimerStep \/ SetsTimer(24))
           /\ chip8'.delay_timer \in 0..255 /\ chip8'.sound_timer \in 0..255
         ]_vars
    /\ ([]<>(pc = "update_timers") /\ <>[](~AboutToSetTimer(21)))
          => <>[](chip8.delay_timer = 0)
    /\ ([]<>(pc = "update_timers") /\ <>[](~AboutToSetTimer(24)))
          => <>[](chip8.sound_timer = 0)

\* Witness: the timers the program had set to 3 have been counted down to 0
\* by three ticks and the machine is still running
C20_Witness ==
    /\ pc = "while"
    /\ chip8.state = "RUNNING"
    /\ chip8.V[0] = 3
    /\ chip8.PC = entry_point + 6
    /\ chip8.delay_timer = 0 /\ chip8.sound_timer = 0

\* The instruction about to run is FXNN with the given NN
AboutToRunF(NN) ==
    ExecStep /\ FetchInRam(chip8) /\ Top(Fetched) = 15 /\ Fetched.NN = NN

\* C21: FX33 with v = V[X] and I + 2 < 4096 leaves a decimal digit in each
\* of ram[I], ram[I+1], ram[I+2] with ram[I] * 100 + ram[I+1] * 10 +
\* ram[I+2] = v; V, I and every other byte of ram are unchanged.
C21_BcdRoundTrip ==
    [][ (AboutToRunF(51) /\ chip8.I + 2 < 4096)
        => LET a == chip8.I
               v == chip8.V[Fetched.X]
           IN /\ \A k \in 0..2 : chip8'.ram[a + k] \in 0..9
              /\ chip8'.ram[a] * 100 + chip8'.ram[a + 1] * 10
                   + chip8'.ram[a + 2] = v
              /\ chip8'.V = chip8.V /\ chip8'.I = chip8.I
              /\ \A b \in 0..4095 :
                    b \notin {a, a + 1, a + 2} => chip8'.ram[b] = chip8.ram[b]
       ]_vars

\* Witness: FF33 has stored 2, 5, 5 for V[F] = 255 in the last three bytes
\* of ram
C21_Witness ==
    /\ Top(chip8.inst) = 15 /\ chip8.inst.NN = 51 /\ chip8.inst.X = 15
    /\ chip8.V[15] = 255
    /\ chip8.I = 4093
    /\ chip8.ram[4093] = 2 /\ chip8.ram[4094] = 5 /\ chip8.ram[4095] = 5

\* The value the program of SaveRoms had saved from V[r]: the low byte of
\* its opcode number r + 1, 6rvv
Saved(r) == rom[2 * r + 2]

\* C22: with I + X < 4096, FX55 writes V[0..X] to ram[I..I+X] and nothing
\* else, FX65 writes ram[I..I+X] to V[0..X] and nothing else, neither
\* changes I; so FX55, any overwriting of V[0..X], then FX65 restores
\* V[0..X] to the values saved.
C22_SaveLoadRoundTrip ==
    [][ /\ (AboutToRunF(85) /\ chip8.I + Fetched.X < 4096)
              => /\ \A b \in 0..4095 :
                       chip8'.ram[b] =
                          IF b >= chip8.I /\ b <= chip8.I + Fetched.X
                          THEN chip8.V[b - chip8.I]
                          ELSE chip8.ram[b]
                 /\ chip8'.V = chip8.V /\ chip8'.I = chip8.I
        /\ (AboutToRunF(101) /\ chip8.I + Fetched.X < 4096)
              => /\ \A r \in 0..15 :
                       chip8'.V[r] = IF r <= Fetched.X
                                     THEN chip8.ram[chip8.I + r]
                                     ELSE chip8.V[r]
                 /\ chip8'.ram = chip8.ram /\ chip8'.I = chip8.I
                 /\ \A r \in 0..Fetched.X : chip8'.V[r] = Saved(r)
      ]_vars

\* Witness: FF65 has restored all 16 registers, V[F] included, from the
\* last 16 bytes of ram after they had been overwritten
C22_Witness ==
    /\ Top(chip8.inst) = 15 /\ chip8.inst.NN = 101 /\ chip8.inst.X = 15
    /\ chip8.I = 4080
    /\ \A r \in 0..15 : chip8.V[r] = Saved(r) /\ chip8.V[r] # 119
    /\ chip8.V[15] = chip8.ram[4095]

\* The machine of a four-opcode program right after its fourth instruction
AfterFour(ops) ==
    /\ rom = Image(ops)
    /\ pc = "for" /\ i = 4
    /\ chip8.PC = 520

\* The framebuffer shows the glyph of digit 1 (rows 0x20, 0x60, 0x20, 0x20,
\* 0x70) with its top left corner at (5, 5) and nothing else
ShowsOneAt55(m) ==
    LET rows == <<32, 96, 32, 32, 112>>
    IN \A p \in 0..2047 :
          LET x == p % 64
              y == p \div 64
          IN m.display[p] =
                (/\ x >= 5 /\ x < 13 /\ y >= 5 /\ y < 10
                 /\ Bit(rows[y - 5 + 1], 7 - (x - 5)) = 1)

\* C23 as stated: after the four instructions 00E0, A22A, 6005, D005 of a
\* fresh machine the framebuffer shows the glyph of digit 1 at (5, 5) and
\* V[F] = 0.
C23_Scenario ==
    AfterFour(<<224, 41514, 24581, 53253>>)
    => (ShowsOneAt55(chip8) /\ chip8.V[15] = 0)

\* C23 amended: the glyph of digit 1 is shown at (5, 5) with V[F] = 0 when
\* the second opcode is A005 (the glyph of digit 1 is at address 5); with
\* A22A the sprite is read from ram[0x22A..0x22E], which the 8-byte image
\* leaves zero, and the framebuffer stays all-off with V[F] = 0.
C23_ScenarioAtGlyph ==
    /\ AfterFour(<<224, 40965, 24581, 53253>>)
          => (ShowsOneAt55(chip8) /\ chip8.V[15] = 0)
    /\ AfterFour(<<224, 41514, 24581, 53253>>)
          => (AllOff(chip8) /\ chip8.V[15] = 0)

\* Witness: the program with A005 has drawn the glyph; the cell (7, 5) of
\* its first row is on
C23_Witness ==
    /\ AfterFour(<<224, 40965, 24581, 53253>>)
    /\ chip8.I = 5 /\ chip8.V[0] = 5
    /\ chip8.display[5 * 64 + 7]
    /\ chip8.draw

\* The condition of the skip instruction inst on the machine m; for EX9E and
\* EXA1 the key looked at is the one named by the low four bits of V[X]
IsSkip(inst) ==
    \/ Top(inst) \in {3, 4}
    \/ Top(inst) \in {5, 9} /\ inst.N = 0
    \/ Top(inst) = 14 /\ inst.NN \in {158, 161}
SkipCond(m, inst) ==
    LET vx == m.V[inst.X]
        vy == m.V[inst.Y]
        key == AndByte(vx, 15)
    IN CASE Top(inst) = 3 -> vx = inst.NN
         [] Top(inst) = 4 -> vx # inst.NN
         [] Top(inst) = 5 -> vx = vy
         [] Top(inst) = 9 -> vx # vy
         [] Top(inst) = 14 /\ inst.NN = 158 -> key \in 0..15 /\ m.keypad[key]
         [] Top(inst) = 14 /\ inst.NN = 161 -> key \in 0..15 /\ ~m.keypad[key]

\* C24: a skip instruction (3XNN, 4XNN, 5XY0, 9XY0, EX9E, EXA1) fetched at
\* a leaves PC = a + 4 when its condition holds and PC = a + 2 otherwise;
\* the key index of EX9E / EXA1 is V[X] & 0xF, within 0..15 for every byte;
\* no register, memory, stack, timer, key or framebuffer cell is changed.
C24_ConditionalSkips ==
    [][ (/\ ExecStep
         /\ FetchInRam(chip8)
         /\ IsSkip(Fetched))
        => (/\ chip8'.PC = chip8.PC + (IF SkipCond(chip8, Fetched) THEN 4 ELSE 2)
            /\ SameData(chip8, chip8')
            /\ chip8'.stack = chip8.stack
            /\ chip8'.stack_ptr = chip8.stack_ptr) ]_vars

\* Witness: E19E with V[1] = 0x1C has looked at key C, which is down, and
\* has skipped the instruction at 518
C24_Witness ==
    /\ chip8.inst.opcode = 14 * 4096 + 256 + 158
    /\ chip8.V[1] = 28
    /\ chip8.keypad[12] /\ ~chip8.keypad[0]
    /\ chip8.PC = entry_point + 8

\* Every field but V, PC and inst is the same in m and n
SameButV(m, n) ==
    /\ m.ram = n.ram /\ m.display = n.display /\ m.I = n.I
    /\ m.delay_timer = n.delay_timer /\ m.sound_timer = n.sound_timer
    /\ m.keypad = n.keypad /\ m.draw = n.draw /\ m.state = n.state
    /\ m.stack = n.stack /\ m.stack_ptr = n.stack_ptr

\* C25: with a = V[X], 8XY6 first sets V[F] to a & 1 and then V[X] to the
\* current V[X] >> 1; 8XYE first sets V[F] to (a >> 7) & 1 and then V[X] to
\* (the current V[X] << 1) mod 256. The registers afterwards are a function
\* of X and the registers before that never reads V[Y]; every register
\* other than V[X] and V[F] keeps its value.
C25_ShiftQuirk ==
    [][ (/\ ExecStep
         /\ FetchInRam(chip8)
         /\ Top(Fetched) = 8 /\ Fetched.N \in {6, 14})
        => LET X == Fetched.X
               a == chip8.V[X]
               flag == IF Fetched.N = 6 THEN a % 2 ELSE (a \div 128) % 2
               V1 == [chip8.V EXCEPT ![15] = flag]
               shifted == IF Fetched.N = 6
                          THEN V1[X] \div 2
                          ELSE (V1[X] * 2) % 256
           IN /\ chip8'.V = [V1 EXCEPT ![X] = shifted]
              /\ chip8'.PC = chip8.PC + 2
              /\ SameButV(chip8, chip8') ]_vars

\* Witness: 81FE with V[1] = 129 and V[F] = 255 has left V[1] = 2 and
\* V[F] = 1
C25_Witness ==
    /\ chip8.inst.opcode = 8 * 4096 + 256 + 15 * 16 + 14
    /\ chip8.V[1] = 2
    /\ chip8.V[15] = 1
    /\ chip8.PC = entry_point + 6

\* C26: FX1E sets I to (I + V[X]) mod 65536, with no masking to 12 bits,
\* and leaves every V register, V[F] included, and everything else as it
\* was, also when the sum is above 0xFFF.
C26_IndexAdd ==
    [][ AboutToRunF(30)
        => (/\ chip8'.I = (chip8.I + chip8.V[Fetched.X]) % 65536
            /\ chip8'.V = chip8.V
            /\ chip8'.PC = chip8.PC + 2
            /\ chip8'.ram = chip8.ram /\ chip8'.display = chip8.display
            /\ chip8'.stack = chip8.stack
            /\ chip8'.stack_ptr = chip8.stack_ptr
            /\ chip8'.delay_timer = chip8.delay_timer
            /\ chip8'.sound_timer = chip8.sound_timer
            /\ chip8'.keypad = chip8.keypad /\ chip8'.draw = chip8.draw
            /\ chip8'.state = chip8.state) ]_vars

\* Witness: the 241st add of 255 to 0xFFF has taken I from 65295 past
\* 0xFFFF to 14, and V[F] is still 0
C26_Witness ==
    /\ Top(chip8.inst) = 15 /\ chip8.inst.NN = 30
    /\ chip8.V[0] = 255
    /\ chip8.I = 14
    /\ chip8.V[15] = 0

\* C27: with at most 12 calls nested, 2NNN fetched at a stores a + 2 in the
\* next free stack slot, adds one to the depth and sets PC to NNN; 00EE sets
\* PC to the entry pushed last and not yet popped and takes one off the
\* depth; neither alters an entry below the top. So every live entry is the
\* address right behind a 2NNN, and a 00EE returns there.
C27_CallReturn ==
    [][ /\ (/\ ExecStep
            /\ FetchInRam(chip8)
            /\ Top(Fetched) = 2
            /\ chip8.stack_ptr \in 0..11)
           => (/\ chip8'.stack_ptr = chip8.stack_ptr + 1
               /\ chip8'.stack[chip8.stack_ptr] = chip8.PC + 2
               /\ chip8'.PC = Fetched.NNN
               /\ \A k \in 0..11 :
                     k # chip8.stack_ptr => chip8'.stack[k] = chip8.stack[k])
        /\ (/\ ExecStep
            /\ FetchInRam(chip8)
            /\ Fetched.opcode = 238
            /\ chip8.stack_ptr \in 1..12)
           => (/\ chip8'.stack_ptr = chip8.stack_ptr - 1
               /\ chip8'.PC = chip8.stack[chip8.stack_ptr - 1]
               /\ chip8'.stack = chip8.stack
               /\ chip8.ram[chip8'.PC - 2] \div 16 = 2)
        /\ ExecStep
           => \A k \in 0..11 :
                 k < chip8'.stack_ptr
                 => chip8.ram[chip8'.stack[k] - 2] \div 16 = 2
      ]_vars

\* Witness: twelve nested calls have been returned from, the last return
\* has taken the machine back to 514, behind the first call; slot 11 still
\* holds the return address of the deepest call
C27_Witness ==
    /\ chip8.inst.opcode = 238
    /\ chip8.stack_ptr = 0
    /\ chip8.PC = entry_point + 2
    /\ chip8.stack[11] = entry_point + 4 * 11 + 2

\* The for loop is about to run emulate_chip8 once more
AboutToExecute ==
    /\ pc = "for" /\ i < clock_speed \div 60
    /\ chip8.stack_ptr \in 0..STACK_SIZE
    /\ chip8.PC < RAM_SIZE + MaxPCOverrun

\* Every address of ram the next instruction reads or writes is in 0..4095:
\* the bytes at PC and PC + 1, the sprite rows DXYN reads (N of them, fewer
\* when the bottom edge cuts the sprite), the three bytes FX33 writes and
\* the X + 1 bytes FX55 writes and FX65 reads
OperandsInRam(m) ==
    /\ m.PC + 1 <= 4095
    /\ LET inst == Decode(NextOpcode(m))
           rows == Least(inst.N, 32 - (m.V[inst.Y] % 32))
       IN /\ (Top(inst) = 13 /\ rows > 0) => m.I + rows - 1 <= 4095
          /\ (Top(inst) = 15 /\ inst.NN = 51) => m.I + 2 <= 4095
          /\ (Top(inst) = 15 /\ inst.NN \in {85, 101}) => m.I + inst.X <= 4095

\* C28: in every reachable state every address of ram an instruction reads
\* or writes is within 0..4095, for every value I can take through ANNN,
\* FX1E and FX29.
C28_OperandsInRam == AboutToExecute => OperandsInRam(chip8)

\* The font table is what init_chip8 wrote
FontIntact(m) ==
    \A g \in 0..15, r \in 0..4 : m.ram[5 * g + r] = 16 * GlyphRows[g + 1][r + 1]

\* C29: in every state a program can reach ram[0x000..0x04F] holds the 16
\* glyphs written at initialisation, so after an FX29 the five bytes
\* ram[I..I+4], I = (V[X] & 0xF) * 5, are the glyph of the digit V[X] & 0xF.
C29_FontImmutable ==
    /\ FontIntact(chip8)
    /\ (Top(chip8.inst) = 15 /\ chip8.inst.NN = 41)
          => LET g == chip8.V[chip8.inst.X] % 16
             IN /\ chip8.I = 5 * g
                /\ \A r \in 0..4 :
                      chip8.ram[chip8.I + r] = 16 * GlyphRows[g + 1][r + 1]

====
